---------------------------- MODULE Spec2Model ----------------------------
(***************************************************************************)
(* Rule dispatch and severity aggregation of civics_cdf_validator/base.py: *)
(* SchemaHandler, BaseRule, TreeRule, ValidReferenceRule and RulesRegistry.*)
(***************************************************************************)
EXTENDS Integers, Sequences, FiniteSets, TLC

(*************************** bounds of the model ***************************)
\* longest rule_classes_to_check list
MaxRules == 2
\* largest number of elements in the election document
MaxElems == 2
\* number of identifiers the reference and defined sets are drawn from
MaxIds == 3
\* largest number of checks that raise a failure in one run
MaxRaised == 2

(************************* lxml elements and trees *************************)
TYPE_ATTRIB == "{http://www.w3.org/2001/XMLSchema-instance}type"

\* element.attrib without / with the xsi:type attribute
NoAttrib == [a \in {} |-> ""]
TypeAttrib(v) == [a \in {TYPE_ATTRIB} |-> v]

\* The python value None, where a string is expected
None == "None"
\* an absent (None) element: it has no tag and no attrib
NoElementObject == [a \in {} |-> ""]

\* get_element_class without the look at the xsi:type attribute
get_element_class_tag_only(element) ==
  IF element = NoElementObject THEN None ELSE element.tag

\* SchemaHandler.get_element_class
get_element_class(element) ==
  IF element = NoElementObject THEN None
  ELSE IF TYPE_ATTRIB \notin DOMAIN element.attrib THEN element.tag
  ELSE element.attrib[TYPE_ATTRIB]

\* Shapes of the elements the documents of the model are built from: an
\* element of tag B whose xsi:type is A, an element of tag tree, and an
\* element whose xsi:type is the empty string.
ElementShapes ==
  { [tag |-> "B", attrib |-> TypeAttrib("A")],
    [tag |-> "tree", attrib |-> NoAttrib],
    [tag |-> "B", attrib |-> TypeAttrib("")] }

\* A document is a sequence of elements; element 1 is the root (parent 0)
\* and every other element hangs under an earlier one.  Siblings are
\* ordered by index.
Documents ==
  UNION { { d \in [1..n -> [shape : ElementShapes, parent : 0..(n-1)]] :
              /\ d[1].parent = 0
              /\ \A i \in 2..n : d[i].parent \in 1..(i-1) } : n \in 1..MaxElems }

RECURSIVE EndOrderOf(_, _)
RECURSIVE EndOrderFrom(_, _, _)
\* etree.iterwalk(tree, events=("end",)): an element is yielded when its
\* end tag is reached, i.e. after all of its children.
EndOrderFrom(d, n, c) ==
  IF c > Len(d) THEN <<n>>
  ELSE IF d[c].parent = n THEN EndOrderOf(d, c) \o EndOrderFrom(d, n, c + 1)
  ELSE EndOrderFrom(d, n, c + 1)
EndOrderOf(d, n) == EndOrderFrom(d, n, n + 1)
iterwalk(d) == EndOrderOf(d, 1)

(******************************* rule classes ******************************)
\* The rule classes that can be configured: a subclass of
\* ValidReferenceRule (a TreeRule) and two subclasses of BaseRule that check
\* elements.  takes_element tells whether check is declared
\* check(self, element) (BaseRule) or check(self) (TreeRule); elements is the
\* list elements() returns; attrs are the attributes __init__ gives an
\* instance.
RuleCatalog ==
  [ ReferenceRule |->
      [takes_element |-> FALSE, elements |-> <<"tree">>,
       attrs |-> {"election_tree", "schema_tree", "missing_element"}],
    ElementRuleA |->
      [takes_element |-> TRUE, elements |-> <<"A">>,
       attrs |-> {"election_tree", "schema_tree"}],
    ElementRuleAB |->
      [takes_element |-> TRUE, elements |-> <<"A", "B", "A">>,
       attrs |-> {"election_tree", "schema_tree"}] ]

RuleClasses == DOMAIN RuleCatalog

\* BaseRule.__init__ / ValidReferenceRule.__init__
NewInstance(cls) ==
  [cls |-> cls,
   attrs |-> [a \in RuleCatalog[cls].attrs |->
                IF a = "missing_element" THEN "data" ELSE a]]

\* RuleOption
RuleOption(name, value) == [option_name |-> name, option_value |-> value]

\* set_option without the hasattr test: setattr creates a missing attribute
set_option_unchecked(attrs, option) ==
  [raised |-> FALSE,
   attrs |-> [a \in DOMAIN attrs \cup {option.option_name} |->
                IF a = option.option_name THEN option.option_value
                ELSE attrs[a]]]

\* BaseRule.set_option: the instance attributes after the call and whether
\* ElectionException("Invalid attribute set") was raised.
set_option(attrs, option) ==
  IF option.option_name \notin DOMAIN attrs
  THEN [raised |-> TRUE, attrs |-> attrs]
  ELSE [raised |-> FALSE,
        attrs |-> [attrs EXCEPT ![option.option_name] = option.option_value]]


(************************* ValidReferenceRule.check ************************)
\* the identifiers the two gather operations can return
Ids == 1..MaxIds

\* the orders in which iterating over a python set can yield its members
Orderings(S) ==
  {q \in [1..Cardinality(S) -> S] : {q[k] : k \in DOMAIN q} = S}

\* ValidReferenceCheck with the difference taken the wrong way round
ValidReferenceCheckSwapped(reference_ids, defined_ids, missing_element) ==
  LET invalid_references == defined_ids \ reference_ids
  IN IF invalid_references # {}
     THEN { [result |-> "raised", cls |-> "ElectionError",
             missing_element |-> missing_element, listing |-> q] :
               q \in Orderings(invalid_references) }
     ELSE { [result |-> "returned", cls |-> "none",
             missing_element |-> missing_element, listing |-> <<>>] }

\* ValidReferenceRule.check, given what the two gather operations return:
\* the outcomes the call can have.  listing is the sequence of identifiers
\* joined into the message of the ElectionError.
ValidReferenceCheck(reference_ids, defined_ids, missing_element) ==
  LET invalid_references == reference_ids \ defined_ids
  IN IF invalid_references # {}
     THEN { [result |-> "raised", cls |-> "ElectionError",
             missing_element |-> missing_element, listing |-> q] :
               q \in Orderings(invalid_references) }
     ELSE { [result |-> "returned", cls |-> "none",
             missing_element |-> missing_element, listing |-> <<>>] }

(************************ failures and their severity **********************)
\* RulesRegistry._SEVERITIES, least severe first
_SEVERITIES == <<"ElectionInfo", "ElectionWarning", "ElectionError">>
Severities == {_SEVERITIES[k] : k \in DOMAIN _SEVERITIES}

\* The classes of the loggers.ElectionException family a check can raise:
\* the three severities and the base class itself (raised by set_option).
ExceptionClasses == Severities \cup {"ElectionException"}

\* issubclass(exception.__class__, e_type) for e_type among the severities
issubclass(cls, e_type) == cls = e_type

\* loggers.ErrorLogEntry(line, message)
ErrorLogEntry(line, message) == [line |-> line, message |-> message]

RECURSIVE LogOfLen(_)
LogOfLen(n) ==
  IF n = 0 THEN <<>> ELSE Append(LogOfLen(n - 1), ErrorLogEntry(n, "entry"))

\* the lengths of the error logs the failures of the model carry
LogLengths == {0, 2}

\* The failures the checks of the model raise: a class of the family and
\* the error_log it carries.  ElectionError comes with an empty log and with
\* a log of two entries, ElectionWarning with a log, ElectionInfo and the
\* base class without one.
Raisable ==
  { [cls |-> "ElectionError", error_log |-> LogOfLen(n)] : n \in LogLengths }
  \cup { [cls |-> "ElectionWarning", error_log |-> LogOfLen(2)],
          [cls |-> "ElectionInfo", error_log |-> <<>>],
          [cls |-> "ElectionException", error_log |-> <<>>] }

(***************************** aggregate counts ****************************)
\* The state RulesRegistry.__init__ gives the aggregate:
\* exceptions[e_type] is a dict rule class -> list of failures, kept in
\* insertion order (a sequence of buckets); exception_rule_counts[e_type]
\* is a dict rule class -> count.
EmptyDict == [c \in {} |-> 0]
InitAggregate ==
  [exceptions |-> [s \in Severities |-> <<>>],
   exception_counts |-> [s \in Severities |-> 0],
   exception_rule_counts |-> [s \in Severities |-> EmptyDict],
   total_count |-> 0]

\* position of rule_class among the keys of an exceptions[e_type] dict, or 0
KeyIndex(buckets, rule_class) ==
  IF \E k \in DOMAIN buckets : buckets[k].rule_class = rule_class
  THEN CHOOSE k \in DOMAIN buckets : buckets[k].rule_class = rule_class
  ELSE 0

\* ErrorCount without the default of 1 for an empty log
ErrorCountOfLog(exception) == Len(exception.error_log)

\* error_count of exception_handler: len(error_log), or 1 for an empty log
ErrorCount(exception) ==
  IF exception.error_log # <<>> THEN Len(exception.error_log) ELSE 1

\* HandleSeverity with the grand total raised by one per failure instead of
\* by error_count
HandleSeverityTotalByOne(agg, e_type, rule_class, exception) ==
  IF ~issubclass(exception.cls, e_type) THEN agg
  ELSE
    LET known == KeyIndex(agg.exceptions[e_type], rule_class) # 0
        buckets0 == IF known THEN agg.exceptions[e_type]
                    ELSE Append(agg.exceptions[e_type],
                                [rule_class |-> rule_class, failures |-> <<>>])
        counts0 == IF known THEN agg.exception_rule_counts[e_type]
                   ELSE [c \in DOMAIN agg.exception_rule_counts[e_type]
                                 \cup {rule_class} |->
                          IF c = rule_class THEN 0
                          ELSE agg.exception_rule_counts[e_type][c]]
        k == KeyIndex(buckets0, rule_class)
        buckets1 == [buckets0 EXCEPT ![k].failures = Append(@, exception)]
        error_count == ErrorCount(exception)
    IN [exceptions |-> [agg.exceptions EXCEPT ![e_type] = buckets1],
        exception_counts |->
          [agg.exception_counts EXCEPT ![e_type] = @ + error_count],
        exception_rule_counts |->
          [agg.exception_rule_counts EXCEPT
             ![e_type] = [counts0 EXCEPT ![rule_class] = @ + error_count]],
        total_count |-> agg.total_count + 1]

\* The body of exception_handler's loop for one e_type.
HandleSeverity(agg, e_type, rule_class, exception) ==
  IF ~issubclass(exception.cls, e_type) THEN agg
  ELSE
    LET known == KeyIndex(agg.exceptions[e_type], rule_class) # 0
        buckets0 == IF known THEN agg.exceptions[e_type]
                    ELSE Append(agg.exceptions[e_type],
                                [rule_class |-> rule_class, failures |-> <<>>])
        counts0 == IF known THEN agg.exception_rule_counts[e_type]
                   ELSE [c \in DOMAIN agg.exception_rule_counts[e_type]
                                 \cup {rule_class} |->
                          IF c = rule_class THEN 0
                          ELSE agg.exception_rule_counts[e_type][c]]
        k == KeyIndex(buckets0, rule_class)
        buckets1 == [buckets0 EXCEPT ![k].failures = Append(@, exception)]
        error_count == ErrorCount(exception)
    IN [exceptions |-> [agg.exceptions EXCEPT ![e_type] = buckets1],
        exception_counts |->
          [agg.exception_counts EXCEPT ![e_type] = @ + error_count],
        exception_rule_counts |->
          [agg.exception_rule_counts EXCEPT
             ![e_type] = [counts0 EXCEPT ![rule_class] = @ + error_count]],
        total_count |-> agg.total_count + error_count]

RECURSIVE HandleFrom(_, _, _, _)
HandleFrom(agg, k, rule_class, exception) ==
  IF k > Len(_SEVERITIES) THEN agg
  ELSE HandleFrom(HandleSeverity(agg, _SEVERITIES[k], rule_class, exception),
                  k + 1, rule_class, exception)

\* RulesRegistry.exception_handler(rule, exception), on the aggregate
exception_handler(agg, rule_class, exception) ==
  HandleFrom(agg, 1, rule_class, exception)

\* FatalParseFailure counting the parse failure as a warning
FatalParseFailureAsWarning(agg) ==
  [agg EXCEPT !.exception_counts["ElectionWarning"] = @ + 1,
              !.total_count = @ + 1]

\* what the except clause of check_rules adds for a fatal parse failure
FatalParseFailure(agg) ==
  [agg EXCEPT !.exception_counts["ElectionError"] = @ + 1,
              !.total_count = @ + 1]

(******************************* registration ******************************)
\* set(rule_instance.elements())
ElementSet(elements) == {elements[k] : k \in DOMAIN elements}

\* One pass of the insertion loop for every key of keys: the instance is
\* appended under the key, a missing key getting a new list.
Insert(registry, keys, inst) ==
  [k \in DOMAIN registry \cup keys |->
     IF k \in keys
     THEN IF k \in DOMAIN registry THEN Append(registry[k], inst) ELSE <<inst>>
     ELSE registry[k]]

RECURSIVE InsertListed(_, _, _, _)
InsertListed(registry, elements, k, inst) ==
  IF k > Len(elements) THEN registry
  ELSE InsertListed(Insert(registry, {elements[k]}, inst), elements, k + 1,
                    inst)

\* RegisterInstance looping over elements() itself instead of its set
RegisterInstanceListed(registry, elements, inst) ==
  InsertListed(registry, elements, 1, inst)

\* "for element in set(rule_instance.elements())" of register_rules
RegisterInstance(registry, elements, inst) ==
  Insert(registry, ElementSet(elements), inst)

RECURSIVE ApplyOptionsLenient(_, _, _)
\* ApplyOptions with an option that raises skipped instead of raised on
ApplyOptionsLenient(attrs, options, k) ==
  IF k > Len(options) THEN [raised |-> FALSE, attrs |-> attrs]
  ELSE ApplyOptionsLenient(set_option(attrs, options[k]).attrs, options, k + 1)

RECURSIVE ApplyOptions(_, _, _)
\* the loop "for option in rule_options[name]: rule_instance.set_option":
\* it stops at the first option that raises
ApplyOptions(attrs, options, k) ==
  IF k > Len(options) THEN [raised |-> FALSE, attrs |-> attrs]
  ELSE LET r == set_option(attrs, options[k])
       IN IF r.raised THEN r ELSE ApplyOptions(r.attrs, options, k + 1)

RECURSIVE SetOptionCalls(_, _, _)
\* the number of set_option calls that loop makes from option k on
SetOptionCalls(attrs, options, k) ==
  IF k > Len(options) THEN 0
  ELSE LET r == set_option(attrs, options[k])
       IN IF r.raised THEN 1
          ELSE 1 + SetOptionCalls(r.attrs, options, k + 1)

\* a method called on rule instance inst
Step(op, inst) == [op |-> op, rule |-> inst]

\* RegisterSteps with the instance inserted before its setup
RegisterStepsInsertFirst(inst, option_calls, raised) ==
  [k \in 1..option_calls |-> Step("set_option", inst)]
  \o (IF raised THEN <<>> ELSE <<Step("insert", inst), Step("setup", inst)>>)

\* The calls one pass of register_rules' loop makes on the instance it
\* created: set_option per option up to one that raises, then setup(), then
\* the insertion under the keys of elements().
RegisterSteps(inst, option_calls, raised) ==
  [k \in 1..option_calls |-> Step("set_option", inst)]
  \o (IF raised THEN <<>> ELSE <<Step("setup", inst), Step("insert", inst)>>)

\* self.registry.get(key, [])
RegistryGet(registry, key) ==
  IF key \in DOMAIN registry THEN registry[key] ELSE <<>>


(******************************** reporting ********************************)
\* One printed line.
Line(kind, e_type, rule_class, count, suffix, text) ==
  [kind |-> kind, e_type |-> e_type, rule_class |-> rule_class,
   count |-> count, suffix |-> suffix, text |-> text]

\* "Validation completed with no warnings/errors."
CleanRunLine == Line("clean", "", "", 0, "", "")

\* the severity argument after the first four lines of print_exceptions
\* (the argument is <<>> for None and <<n>> for the integer n)
ClampSeverity(severity) ==
  IF severity = <<>> \/ severity[1] = 0 THEN 0
  ELSE IF severity[1] > Len(_SEVERITIES) THEN Len(_SEVERITIES) - 1
  ELSE severity[1]

\* SliceFrom starting one severity too low
SliceFromOneBelow(q, k) == SubSeq(q, IF k = 0 THEN 1 ELSE k, Len(q))

\* self._SEVERITIES[severity:]
SliceFrom(q, k) == SubSeq(q, k + 1, Len(q))

\* reversed(q)
Reversed(q) == [k \in 1..Len(q) |-> q[Len(q) + 1 - k]]

\* InsertDescending with the key put before the keys of equal count
InsertDescendingBeforeEqual(q, x, count) ==
  LET before == {k \in 1..Len(q) : count[q[k]] > count[x]}
      n == Cardinality(before)
  IN SubSeq(q, 1, n) \o <<x>> \o SubSeq(q, n + 1, Len(q))

\* insertion of key x into a list sorted by descending count, behind the
\* keys of equal count
InsertDescending(q, x, count) ==
  LET before == {k \in 1..Len(q) : count[q[k]] >= count[x]}
      n == Cardinality(before)
  IN SubSeq(q, 1, n) \o <<x>> \o SubSeq(q, n + 1, Len(q))

RECURSIVE SortedFrom(_, _, _)
SortedFrom(keys, k, count) ==
  IF k = 0 THEN <<>>
  ELSE InsertDescending(SortedFrom(keys, k - 1, count), keys[k], count)

\* sorted(keys, key=lambda rclass: count[rclass], reverse=True): stable
SortedDescending(keys, count) == SortedFrom(keys, Len(keys), count)

\* the lines printed for one failure when verbose
RECURSIVE LogLines(_, _)
LogLines(error_log, k) ==
  IF k > Len(error_log) THEN <<>>
  ELSE <<Line("message", "", "", error_log[k].line, "", error_log[k].message)>>
       \o LogLines(error_log, k + 1)

FailureLines(exception) ==
  IF exception.error_log = <<>>
  THEN <<Line("message", exception.cls, "", 0, "", "str(exception)")>>
  ELSE LogLines(exception.error_log, 1)

RECURSIVE BucketLines(_, _)
BucketLines(failures, k) ==
  IF k > Len(failures) THEN <<>>
  ELSE FailureLines(failures[k]) \o BucketLines(failures, k + 1)

\* the lines of the inner loop of print_exceptions over the sorted classes
RECURSIVE RuleLines(_, _, _, _, _)
RuleLines(agg, e_type, sorted, k, verbose) ==
  IF k > Len(sorted) THEN <<>>
  ELSE
    LET rule_class == sorted[k]
        rule_count == agg.exception_rule_counts[e_type][rule_class]
        b == KeyIndex(agg.exceptions[e_type], rule_class)
    IN <<Line("rule", e_type, rule_class, rule_count,
              IF rule_count > 1 THEN "s" ELSE "", "")>>
       \o (IF verbose THEN BucketLines(agg.exceptions[e_type][b].failures, 1)
           ELSE <<>>)
       \o RuleLines(agg, e_type, sorted, k + 1, verbose)

\* the lines of the outer loop of print_exceptions over the severities
RECURSIVE SeverityLines(_, _, _, _)
SeverityLines(agg, types, k, verbose) ==
  IF k > Len(types) THEN <<>>
  ELSE
    LET e_type == types[k]
        count == agg.exception_counts[e_type]
        keys == [b \in 1..Len(agg.exceptions[e_type]) |->
                   agg.exceptions[e_type][b].rule_class]
    IN (IF count = 0 THEN <<>>
        ELSE <<Line("severity", e_type, "", count,
                    IF count > 1 THEN "s" ELSE "", "")>>
             \o RuleLines(agg, e_type,
                          SortedDescending(keys,
                                           agg.exception_rule_counts[e_type]),
                          1, verbose))
       \o SeverityLines(agg, types, k + 1, verbose)

\* RulesRegistry.print_exceptions(severity, verbose): the lines printed
print_exceptions(agg, severity, verbose) ==
  LET exception_types == SliceFrom(_SEVERITIES, ClampSeverity(severity))
  IN IF agg.total_count = 0 THEN <<CleanRunLine>>
     ELSE SeverityLines(agg, Reversed(exception_types), 1, verbose)

(*************************** a DateRule instance ***************************)
\* NoDate stands for a date field that is None; dates are positive numbers.
NoDate == 0

\* DateRule.__init__: the per-invocation fields
NewDateRule ==
  [start_elem |-> NoElementObject, start_date |-> NoDate,
   end_elem |-> NoElementObject, end_date |-> NoDate, error_log |-> <<>>]

(******************************** the state ********************************)
VARIABLES
  pc,                     \* where check_rules stands
  election_file,          \* the document the election file holds
  rule_classes_to_check,  \* configured rule classes, in order
  rule_options,           \* dict rule class name -> list of RuleOption
  schema_tree,            \* None until the schema file is parsed
  election_tree,          \* None until the election file is parsed
  instances,              \* rule instances created so far, by creation order
  registry,               \* dispatch table: key -> list of instances
  exceptions,             \* severity -> buckets of failures per rule class
  exception_counts,       \* severity -> count
  exception_rule_counts,  \* severity -> rule class -> count
  total_count,            \* grand total
  idx,                    \* index of the running for loop over rules
  elem,                   \* index of the running iterwalk
  calls,                  \* the check invocations made so far, with outcome
  steps,                  \* the methods called on rule instances, in order
  output,                 \* what the last print_exceptions printed
  date_rule,              \* the fields of a DateRule instance
  runs,                   \* the number of check_rules calls made
  args,                   \* arguments of a method called on its own
  result                  \* what that call did

vars == <<pc, election_file, rule_classes_to_check, rule_options, schema_tree,
          election_tree, instances, registry, exceptions, exception_counts,
          exception_rule_counts, total_count, idx, elem, calls, steps,
          output, date_rule, runs, args, result>>

inputs == <<election_file, rule_classes_to_check, rule_options, args, result>>

Aggregate ==
  [exceptions |-> exceptions, exception_counts |-> exception_counts,
   exception_rule_counts |-> exception_rule_counts,
   total_count |-> total_count]

SetAggregate(agg) ==
  /\ exceptions' = agg.exceptions
  /\ exception_counts' = agg.exception_counts
  /\ exception_rule_counts' = agg.exception_rule_counts
  /\ total_count' = agg.total_count

aggregate == <<exceptions, exception_counts, exception_rule_counts, total_count>>

(********************************* inputs **********************************)
\* the severity arguments print_exceptions is called with
SeverityArgs == {<<>>} \cup {<<n>> : n \in 0..(Len(_SEVERITIES) + 1)}

\* output before print_exceptions was called
NotPrinted == [called |-> FALSE, severity |-> <<>>, verbose |-> FALSE,
               lines |-> <<>>]

\* election_tree before the election file is parsed
NoTree == <<>>

RECURSIVE SeqsUpTo(_, _)
SeqsUpTo(S, n) ==
  IF n = 0 THEN {<<>>}
  ELSE SeqsUpTo(S, n - 1) \cup
       {Append(q, x) : q \in {r \in SeqsUpTo(S, n - 1) : Len(r) = n - 1}, x \in S}

\* the lists of at most n rule classes, each class configured once
RuleLists(n) ==
  {q \in SeqsUpTo(RuleClasses, n) :
     \A g, h \in DOMAIN q : g # h => q[g] # q[h]}

\* rule_options: no options, or an option for ReferenceRule naming an
\* attribute it has and two for ElementRuleA, of which the second names an
\* attribute it does not have
OptionDicts ==
  { EmptyDict,
    [c \in {"ReferenceRule", "ElementRuleA"} |->
       IF c = "ReferenceRule"
       THEN <<RuleOption("missing_element", "value")>>
       ELSE <<RuleOption("election_tree", "value"),
              RuleOption("missing_element", "value")>>] }

NoCall == "no call"

\* RulesRegistry.__init__, all but the three inputs
InitRegistry ==
  /\ schema_tree = None
  /\ election_tree = NoTree
  /\ instances = <<>>
  /\ registry = EmptyDict
  /\ exceptions = InitAggregate.exceptions
  /\ exception_counts = InitAggregate.exception_counts
  /\ exception_rule_counts = InitAggregate.exception_rule_counts
  /\ total_count = InitAggregate.total_count
  /\ idx = 0
  /\ elem = 0
  /\ calls = <<>>
  /\ steps = <<>>
  /\ output = NotPrinted
  /\ date_rule = NewDateRule
  /\ runs = 1

\* RulesRegistry.__init__
Init ==
  /\ pc = "start"
  /\ args = NoCall
  /\ result = NoCall
  /\ InitRegistry
  /\ election_file \in Documents
  /\ rule_classes_to_check \in RuleLists(MaxRules)
  /\ rule_options \in OptionDicts


(****************************** check outcomes *****************************)
NoFailure == [cls |-> "none", error_log |-> <<>>]
Returned == [result |-> "returned", failure |-> NoFailure]
Raised(exception) == [result |-> "raised", failure |-> exception]
TypeError == [result |-> "TypeError", failure |-> NoFailure]

\* NoElement stands for "check called without an argument"
NoElement == 0

\* What calling check can do for an instance of rule class cls: python
\* raises TypeError when the call does not fit the declared parameters;
\* otherwise the check returns or raises a failure of the family.
CheckOutcomes(cls, element) ==
  IF RuleCatalog[cls].takes_element # (element # NoElement)
  THEN {TypeError}
  ELSE {Returned} \cup {Raised(x) : x \in Raisable}

\* the number of invocations so far that raised a failure
RaisedSoFar == Cardinality({k \in DOMAIN calls : calls[k].outcome.result = "raised"})

\* the effect of one "try: check / except ElectionException: handler"
Dispatch(rule, element, outcome) ==
  /\ outcome.result = "raised" => RaisedSoFar < MaxRaised
  /\ calls' = Append(calls, [rule |-> rule, element |-> element,
                              outcome |-> outcome, run |-> runs])
  /\ steps' = Append(steps, Step("check", rule))
  /\ IF outcome.result = "raised"
     THEN SetAggregate(exception_handler(Aggregate, instances[rule].cls,
                                         outcome.failure))
     ELSE UNCHANGED aggregate

(********************************* DateRule ********************************)
\* Dates are days counted from a fixed day.
Dates == 1..3

\* self.today
today == 2

\* element.text: <<>> for None (an element without text), <<s>> for string s
NoText == <<>>
Text(s) == <<s>>

\* datetime.datetime.strptime(text, "%Y-%m-%d").date(): the date, or the
\* exception raised (ValueError for a string of another format, TypeError
\* for a text that is no string)
strptime(text) ==
  IF text = NoText THEN [raised |-> "TypeError", date |-> NoDate]
  ELSE IF text[1] = "2026-11-01" THEN [raised |-> "", date |-> 1]
  ELSE IF text[1] = "2026-11-02" THEN [raised |-> "", date |-> 2]
  ELSE IF text[1] = "2026-11-03" THEN [raised |-> "", date |-> 3]
  ELSE [raised |-> "ValueError", date |-> NoDate]

\* the texts a date child can have
DateTexts ==
  {NoText} \cup {Text(s) : s \in {"2026-11-01", "2026-11-02", "2026-11-03",
                                  "2026-02-30"}}

\* a StartDate or EndDate child: its text and source line
DateChild(text, sourceline) == [text |-> text, sourceline |-> sourceline]

\* the elements gather_dates is handed: element.find(name) is
\* NoElementObject when there is no such child
DateElements ==
  [StartDate : {NoElementObject} \cup {DateChild(t, 1) : t \in DateTexts},
   EndDate : {NoElementObject} \cup {DateChild(t, 2) : t \in DateTexts}]

\* DateRule.reset_instance_vars
reset_instance_vars(rule) == NewDateRule

AttributeError == [result |-> "AttributeError", failure |-> NoFailure]

\* One of the two blocks of gather_dates, for the child named field of
\* element: g holds the instance, the local error_log and the exception
\* that left the method, if any.
GatherField(g, element, field) ==
  LET child == element[field]
      elem_field == IF field = "StartDate" THEN "start_elem" ELSE "end_elem"
      date_field == IF field = "StartDate" THEN "start_date" ELSE "end_date"
      found == [g EXCEPT !.rule[elem_field] = child]
  IN IF g.raised # "" THEN g
     ELSE IF child = NoElementObject THEN found
     ELSE LET parsed == strptime(child.text)
          IN IF parsed.raised = "TypeError"
             THEN [found EXCEPT !.raised = "TypeError"]
             ELSE IF parsed.raised = "ValueError"
             THEN [found EXCEPT !.error_log =
                     Append(@, ErrorLogEntry(child.sourceline,
                                             field \o " format"))]
             ELSE [found EXCEPT !.rule[date_field] = parsed.date]

\* DateRule.gather_dates(element): the instance after the call and how the
\* call ended
gather_dates(rule, element) ==
  LET g0 == [rule |-> rule, error_log |-> <<>>, raised |-> ""]
      g2 == GatherField(GatherField(g0, element, "StartDate"), element,
                        "EndDate")
  IN [rule |-> g2.rule,
      outcome |-> IF g2.raised = "TypeError" THEN TypeError
                  ELSE IF g2.error_log # <<>>
                  THEN Raised([cls |-> "ElectionError",
                               error_log |-> g2.error_log])
                  ELSE Returned]

\* DateRule.check_for_date_not_in_past(date, date_elem)
check_for_date_not_in_past(rule, date, date_elem) ==
  IF date = NoDate THEN [rule |-> rule, outcome |-> TypeError]
  ELSE IF date - today < 0
  THEN IF date_elem = NoElementObject
       THEN [rule |-> rule, outcome |-> AttributeError]
       ELSE [rule |-> [rule EXCEPT !.error_log =
                         Append(@, ErrorLogEntry(date_elem.sourceline,
                                                 "in the past"))],
             outcome |-> Returned]
  ELSE [rule |-> rule, outcome |-> Returned]

\* DateRule.check_end_after_start()
check_end_after_start(rule) ==
  IF rule.end_date = NoDate \/ rule.start_date = NoDate
  THEN [rule |-> rule, outcome |-> TypeError]
  ELSE IF rule.end_date - rule.start_date < 0
  THEN IF rule.end_elem = NoElementObject
       THEN [rule |-> rule, outcome |-> AttributeError]
       ELSE [rule |-> [rule EXCEPT !.error_log =
                         Append(@, ErrorLogEntry(rule.end_elem.sourceline,
                                                 "end before start"))],
             outcome |-> Returned]
  ELSE [rule |-> rule, outcome |-> Returned]

(********************************* actions *********************************)
\* check_rules: both files parse
ParseOk ==
  /\ pc = "start"
  /\ schema_tree' = "schema_tree"
  /\ election_tree' = election_file
  /\ pc' = "register"
  /\ idx' = 1
  /\ UNCHANGED <<inputs, instances, registry, aggregate, elem, calls, steps,
                 output, date_rule, runs>>

\* check_rules: etree.parse raises LxmlError on the schema or the election
\* file; the failure is counted and check_rules returns
ParseFail ==
  /\ pc = "start"
  /\ \E file \in {"schema_file", "election_file"} :
       schema_tree' = IF file = "election_file" THEN "schema_tree"
                      ELSE schema_tree
  /\ SetAggregate(FatalParseFailure(Aggregate))
  /\ pc' = "done"
  /\ UNCHANGED <<inputs, election_tree, instances, registry, idx, elem, calls, steps,
                 output, date_rule, runs>>

\* register_rules: one pass of the loop over rule_classes_to_check.  An
\* option that raises leaves register_rules and check_rules.
RegisterRule ==
  /\ pc = "register"
  /\ idx <= Len(rule_classes_to_check)
  /\ LET rule == rule_classes_to_check[idx]
         rule_instance == NewInstance(rule)
         options == IF rule \in DOMAIN rule_options THEN rule_options[rule]
                    ELSE <<>>
         r == ApplyOptions(rule_instance.attrs, options, 1)
     IN /\ steps' = steps \o RegisterSteps(Len(instances) + 1,
                                           SetOptionCalls(rule_instance.attrs,
                                                          options, 1),
                                           r.raised)
        /\ IF r.raised
           THEN /\ pc' = "aborted"
                /\ UNCHANGED <<instances, registry, idx>>
           ELSE /\ instances' = Append(instances,
                                       [rule_instance EXCEPT !.attrs = r.attrs])
                /\ registry' = RegisterInstance(registry,
                                                RuleCatalog[rule].elements,
                                                Len(instances) + 1)
                /\ idx' = idx + 1
                /\ pc' = pc
  /\ UNCHANGED <<inputs, schema_tree, election_tree, aggregate, elem, calls,
                 output, date_rule, runs>>

\* register_rules returns; the loop over the tree rules starts
RegisterDone ==
  /\ pc = "register"
  /\ idx > Len(rule_classes_to_check)
  /\ pc' = "tree"
  /\ idx' = 1
  /\ UNCHANGED <<inputs, schema_tree, election_tree, instances, registry,
                 aggregate, elem, calls, steps, output, date_rule, runs>>

\* one pass of "for rule in self.registry.get('tree', [])"
TreeCheck ==
  /\ pc = "tree"
  /\ idx <= Len(RegistryGet(registry, "tree"))
  /\ LET rule == RegistryGet(registry, "tree")[idx]
     IN \E outcome \in CheckOutcomes(instances[rule].cls, NoElement) :
          /\ Dispatch(rule, NoElement, outcome)
          /\ IF outcome.result = "TypeError"
             THEN pc' = "aborted" /\ idx' = idx
             ELSE pc' = pc /\ idx' = idx + 1
  /\ UNCHANGED <<inputs, schema_tree, election_tree, instances, registry,
                 elem, output, date_rule, runs>>

\* the tree loop ends; iterwalk starts
TreeDone ==
  /\ pc = "tree"
  /\ idx > Len(RegistryGet(registry, "tree"))
  /\ pc' = "elements"
  /\ elem' = 1
  /\ idx' = 1
  /\ UNCHANGED <<inputs, schema_tree, election_tree, instances, registry,
                 aggregate, calls, steps, output, date_rule, runs>>

\* the element iterwalk stands at, and its dispatch key
Element == election_tree[iterwalk(election_tree)[elem]].shape
Tag == get_element_class(Element)
\* "not tag"
Falsy(tag) == tag = None \/ tag = ""

\* "if not tag or tag not in self.registry: continue"
ElementSkip ==
  /\ pc = "elements"
  /\ elem <= Len(iterwalk(election_tree))
  /\ Falsy(Tag) \/ Tag \notin DOMAIN registry
  /\ elem' = elem + 1
  /\ UNCHANGED <<pc, inputs, schema_tree, election_tree, instances, registry,
                 aggregate, idx, calls, steps, output, date_rule, runs>>

\* one pass of "for element_rule in self.registry[tag]"
ElementCheck ==
  /\ pc = "elements"
  /\ elem <= Len(iterwalk(election_tree))
  /\ ~Falsy(Tag)
  /\ Tag \in DOMAIN registry
  /\ LET element_rule == registry[Tag][idx]
         element == iterwalk(election_tree)[elem]
     IN \E outcome \in CheckOutcomes(instances[element_rule].cls, element) :
          /\ Dispatch(element_rule, element, outcome)
          /\ IF outcome.result = "TypeError"
             THEN pc' = "aborted" /\ idx' = idx /\ elem' = elem
             ELSE /\ pc' = pc
                  /\ IF idx < Len(registry[Tag])
                     THEN idx' = idx + 1 /\ elem' = elem
                     ELSE idx' = 1 /\ elem' = elem + 1
  /\ UNCHANGED <<inputs, schema_tree, election_tree, instances, registry,
                 output, date_rule, runs>>

\* iterwalk is exhausted; check_rules returns
ElementsDone ==
  /\ pc = "elements"
  /\ elem > Len(iterwalk(election_tree))
  /\ pc' = "done"
  /\ UNCHANGED <<inputs, schema_tree, election_tree, instances, registry,
                 aggregate, idx, elem, calls, steps, output, date_rule, runs>>

\* print_exceptions resetting the aggregate once it is printed
PrintExceptionsAndReset ==
  /\ pc = "done"
  /\ \E severity \in SeverityArgs, verbose \in BOOLEAN :
       output' = [called |-> TRUE, severity |-> severity, verbose |-> verbose,
                  lines |-> print_exceptions(Aggregate, severity, verbose)]
  /\ SetAggregate(InitAggregate)
  /\ UNCHANGED <<pc, inputs, schema_tree, election_tree, instances, registry,
                 idx, elem, calls, steps, date_rule, runs>>

\* print_exceptions(severity, verbose), called after check_rules returned
PrintExceptions ==
  /\ pc = "done"
  /\ \E severity \in SeverityArgs, verbose \in BOOLEAN :
       output' = [called |-> TRUE, severity |-> severity, verbose |-> verbose,
                  lines |-> print_exceptions(Aggregate, severity, verbose)]
  /\ UNCHANGED <<pc, inputs, schema_tree, election_tree, instances, registry,
                 aggregate, idx, elem, calls, steps,
                 date_rule, runs>>

Next ==
  \/ ParseOk
  \/ ParseFail
  \/ RegisterRule
  \/ RegisterDone
  \/ TreeCheck
  \/ TreeDone
  \/ ElementSkip
  \/ ElementCheck
  \/ ElementsDone

Spec == Init /\ [][Next]_vars


(************************ a run followed by its report *********************)
\* the documents of the runs that are reported: a single element, which
\* resolves to the key "A"
ReportDocuments ==
  {d \in Documents :
     /\ Len(d) = 1
     /\ d[1].shape = [tag |-> "B", attrib |-> TypeAttrib("A")]}

InitReport ==
  /\ pc = "start"
  /\ args = NoCall
  /\ result = NoCall
  /\ InitRegistry
  /\ election_file \in ReportDocuments
  /\ rule_classes_to_check \in RuleLists(MaxRules)
  /\ rule_options = EmptyDict

\* count_stats(), called after check_rules returned: with a parsed document
\* it prints the heading and the entity counts, without one nothing
CountStats ==
  /\ pc = "done"
  /\ result' = IF election_tree # NoTree THEN "count_stats printed the counts"
               ELSE "count_stats printed nothing"
  /\ UNCHANGED <<pc, election_file, rule_classes_to_check, rule_options, args,
                 schema_tree, election_tree, instances, registry, aggregate,
                 idx, elem, calls, steps, output, date_rule, runs>>

NextReport == Next \/ PrintExceptions \/ CountStats

SpecReport == InitReport /\ [][NextReport]_vars

(******************** check_rules called again and again *******************)
\* the number of check_rules calls made on one registry
MaxRuns == 2

InitRerun ==
  /\ pc = "start"
  /\ args = NoCall
  /\ result = NoCall
  /\ InitRegistry
  /\ election_file \in ReportDocuments
  /\ rule_classes_to_check \in RuleLists(MaxRules)
  /\ rule_options = EmptyDict

\* check_rules is called on a registry on which it has returned before:
\* nothing is reset, the method starts at its first line
CheckRulesAgain ==
  /\ pc = "done"
  /\ runs < MaxRuns
  /\ runs' = runs + 1
  /\ pc' = "start"
  /\ UNCHANGED <<inputs, schema_tree, election_tree, instances, registry,
                 aggregate, idx, elem, calls, steps, output, date_rule>>

NextRerun == Next \/ CheckRulesAgain

SpecRerun == InitRerun /\ [][NextRerun]_vars

(*************************** set_option on its own *************************)
\* the states an instance's attributes can be in
AttrStates ==
  UNION { [RuleCatalog[c].attrs -> {"initial", "value"}] : c \in RuleClasses }

OptionNames == {"election_tree", "schema_tree", "missing_element", "bogus"}

OptionValues == {"value", "other"}

\* a rule instance in some state and the option set_option is handed
InitOption ==
  /\ pc = "set_option"
  /\ args \in [attrs : AttrStates,
               option : {RuleOption(n, v) : n \in OptionNames,
                                            v \in OptionValues}]
  /\ result = NoCall
  /\ InitRegistry
  /\ election_file = NoTree
  /\ rule_classes_to_check = <<>>
  /\ rule_options = EmptyDict

standalone == <<election_file, rule_classes_to_check, rule_options,
                schema_tree, election_tree, instances, registry, exceptions,
                exception_counts, exception_rule_counts, total_count, idx,
                elem, calls, steps, output, runs, args>>

\* the same, for the calls on a rule instance of its own
registry_state == <<election_file, rule_classes_to_check, rule_options,
                    schema_tree, election_tree, instances, registry,
                    exceptions, exception_counts, exception_rule_counts,
                    total_count, idx, elem, calls, steps, output, runs,
                    args>>

\* rule_instance.set_option(option)
CallSetOption ==
  /\ pc = "set_option"
  /\ result' = set_option(args.attrs, args.option)
  /\ pc' = "set_option returned"
  /\ UNCHANGED <<standalone, date_rule>>

SpecOption == InitOption /\ [][CallSetOption]_vars

(********************* ValidReferenceRule.check on its own *****************)
\* what _gather_reference_values and _gather_defined_values return
InitReference ==
  /\ pc = "check"
  /\ args \in [reference_ids : SUBSET Ids, defined_ids : SUBSET Ids,
               missing_element : {"data"}]
  /\ result = NoCall
  /\ InitRegistry
  /\ election_file = NoTree
  /\ rule_classes_to_check = <<>>
  /\ rule_options = EmptyDict

\* ValidReferenceRule.check()
CallCheck ==
  /\ pc = "check"
  /\ result' \in ValidReferenceCheck(args.reference_ids, args.defined_ids,
                                     args.missing_element)
  /\ pc' = "check returned"
  /\ UNCHANGED <<standalone, date_rule>>

SpecReference == InitReference /\ [][CallCheck]_vars


(************************ a DateRule instance in use ***********************)
\* the longest error_log an instance accumulates
MaxDateLog == 2

\* a DateRule instance as __init__ leaves it
InitDate ==
  /\ pc = "date_rule"
  /\ args = NoCall
  /\ result = [op |-> "__init__", element |-> NoElementObject,
               date |-> NoDate, outcome |-> Returned]
  /\ InitRegistry
  /\ election_file = NoTree
  /\ rule_classes_to_check = <<>>
  /\ rule_options = EmptyDict

\* what a call on the instance was: the method, its arguments and how it
\* ended
DateCall(op, element, date, outcome) ==
  [op |-> op, element |-> element, date |-> date, outcome |-> outcome]

\* self.gather_dates(element)
GatherDates ==
  /\ pc = "date_rule"
  /\ \E element \in DateElements :
       LET r == gather_dates(date_rule, element)
       IN /\ date_rule' = r.rule
          /\ result' = DateCall("gather_dates", element, NoDate, r.outcome)
  /\ UNCHANGED <<pc, registry_state>>

\* self.reset_instance_vars()
ResetInstanceVars ==
  /\ pc = "date_rule"
  /\ date_rule' = reset_instance_vars(date_rule)
  /\ result' = DateCall("reset_instance_vars", NoElementObject, NoDate,
                        Returned)
  /\ UNCHANGED <<pc, registry_state>>

\* self.check_for_date_not_in_past(date, date_elem), with the start or the
\* end date and its element as concrete rules call it
CheckForDateNotInPast ==
  /\ pc = "date_rule"
  /\ Len(date_rule.error_log) < MaxDateLog
  /\ \E which \in {"start", "end"} :
       LET date == IF which = "start" THEN date_rule.start_date
                   ELSE date_rule.end_date
           date_elem == IF which = "start" THEN date_rule.start_elem
                        ELSE date_rule.end_elem
           r == check_for_date_not_in_past(date_rule, date, date_elem)
       IN /\ date_rule' = r.rule
          /\ result' = DateCall("check_for_date_not_in_past", date_elem,
                                date, r.outcome)
  /\ UNCHANGED <<pc, registry_state>>

\* self.check_end_after_start()
CheckEndAfterStart ==
  /\ pc = "date_rule"
  /\ Len(date_rule.error_log) < MaxDateLog
  /\ LET r == check_end_after_start(date_rule)
     IN /\ date_rule' = r.rule
        /\ result' = DateCall("check_end_after_start", NoElementObject,
                              NoDate, r.outcome)
  /\ UNCHANGED <<pc, registry_state>>

NextDate ==
  \/ GatherDates
  \/ ResetInstanceVars
  \/ CheckForDateNotInPast
  \/ CheckEndAfterStart

SpecDate == InitDate /\ [][NextDate]_vars


(******************************** properties *******************************)
RECURSIVE SumOver(_, _)
\* the sum of f[x] over the x of S
SumOver(f, S) ==
  IF S = {} THEN 0
  ELSE LET x == CHOOSE y \in S : TRUE IN f[x] + SumOver(f, S \ {x})

SumSeverityCounts == SumOver(exception_counts, Severities)

SumRuleCounts ==
  SumOver([s \in Severities |->
             SumOver(exception_rule_counts[s], DOMAIN exception_rule_counts[s])],
          Severities)

\* 1 once check_rules has returned on a fatal parse failure
FatalParseFailures ==
  IF pc = "done" /\ election_tree = NoTree THEN 1 ELSE 0

\* C1 as stated: in every reachable state total_count equals the sum of
\* exception_counts, and that sum equals the sum of exception_rule_counts
\* over all (severity, rule class) pairs.
C1_AsStated ==
  /\ total_count = SumSeverityCounts
  /\ SumSeverityCounts = SumRuleCounts

\* C1 amended: total_count always equals the sum of exception_counts; the
\* sum of exception_rule_counts equals total_count less the fatal parse
\* failure, which is counted under ElectionError and in the total but under
\* no rule class.
C1_CountsAgree ==
  /\ total_count = SumSeverityCounts
  /\ SumRuleCounts = total_count - FatalParseFailures

\* a finished run in which exception_handler counted two failures, one of
\* them with a log of several entries
C1_Witness ==
  /\ pc = "done"
  /\ RaisedSoFar >= 2
  /\ total_count >= 3
  /\ SumRuleCounts = total_count

\* C5: when parsing the schema or the document fails, the run ends with
\* total_count = 1, exception_counts[Error] = 1 and the other two counts 0,
\* an empty dispatch table, no rule instance and no check invoked.
C5_FatalParseFailure ==
  (pc = "done" /\ election_tree = NoTree) =>
     /\ total_count = 1
     /\ exception_counts = [s \in Severities |->
                              IF s = "ElectionError" THEN 1 ELSE 0]
     /\ registry = EmptyDict
     /\ instances = <<>>
     /\ calls = <<>>

\* check_rules returned on a parse failure of a run with rules configured
\* and a document at hand
C5_Witness ==
  /\ pc = "done"
  /\ election_tree = NoTree
  /\ rule_classes_to_check # <<>>
  /\ total_count = 1


(*********************** dispatch: what a run invokes **********************)
\* parse and register_rules succeeded and the dispatch loops are reached
RegistrationSucceeded ==
  /\ pc \in {"tree", "elements", "done", "aborted"}
  /\ election_tree # NoTree
  /\ Len(instances) = Len(rule_classes_to_check)

\* check_rules has returned or was left by an exception
Finished == pc \in {"done", "aborted"}

\* the tree loop is over
TreePhaseOver == pc \in {"elements", "done", "aborted"}

\* the number of invocations of check on instance rule so far
Invocations(rule) == Cardinality({k \in DOMAIN calls : calls[k].rule = rule})

\* rule is invoked with element at some point
InvokedWith(rule, element) ==
  \E k \in DOMAIN calls : calls[k].rule = rule /\ calls[k].element = element

TreeRules == {RegistryGet(registry, "tree")[k] :
                k \in DOMAIN RegistryGet(registry, "tree")}

\* the dispatch key of the element with index n of the parsed document
KeyOf(n) == get_element_class(election_tree[n].shape)

\* a check raised a failure of one of the three severities
SomeValidationFailure ==
  \E k \in DOMAIN calls :
     /\ calls[k].outcome.result = "raised"
     /\ calls[k].outcome.failure.cls \in Severities

\* C2 as stated: in a run whose parse and registration succeed, a validation
\* failure raised by a check never stops the run: every tree rule is
\* invoked, and every rule registered under an element key is invoked on
\* every element of that key, whatever checks failed.
C2_AsStated ==
  (RegistrationSucceeded /\ Finished /\ SomeValidationFailure) =>
     /\ \A rule \in TreeRules : InvokedWith(rule, NoElement)
     /\ \A n \in DOMAIN election_tree :
          (KeyOf(n) \in DOMAIN registry \ {"tree"}) =>
             \A k \in DOMAIN registry[KeyOf(n)] :
                InvokedWith(registry[KeyOf(n)][k], n)

\* C3 as stated: for every document, also one with an element whose key is
\* "tree", each instance registered under the whole-tree key is invoked
\* exactly once per run, and before the first invocation made for an
\* element.
C3_AsStated ==
  RegistrationSucceeded =>
     /\ \A rule \in TreeRules :
          /\ Invocations(rule) <= 1
          /\ TreePhaseOver => Invocations(rule) = 1
     /\ \A k \in DOMAIN calls :
          calls[k].rule \in TreeRules =>
             \A h \in 1..k : calls[h].element = NoElement

RECURSIVE ExpectedFrom(_)
\* the invocations the element phase is to make from position p of the
\* traversal on: per element whose key is in the dispatch table, every rule
\* under that key in registration order
ExpectedFrom(p) ==
  IF p > Len(iterwalk(election_tree)) THEN <<>>
  ELSE LET n == iterwalk(election_tree)[p]
       IN (IF KeyOf(n) \in DOMAIN registry
           THEN [k \in DOMAIN registry[KeyOf(n)] |-> <<registry[KeyOf(n)][k], n>>]
           ELSE <<>>)
          \o ExpectedFrom(p + 1)

\* the invocations made for elements, in the order they were made
ElementInvocations ==
  LET made == SelectSeq(calls, LAMBDA c : c.element # NoElement)
  IN [k \in DOMAIN made |-> <<made[k].rule, made[k].element>>]

\* position of element n in the traversal
Position(n) ==
  CHOOSE p \in DOMAIN iterwalk(election_tree) : iterwalk(election_tree)[p] = n

\* C4 as stated: the element phase traverses the document once in end-order
\* and, for each element whose key is in the dispatch table, invokes every
\* rule registered under that key exactly once with that element, in
\* registration order, and invokes nothing for other elements.
C4_AsStated ==
  (RegistrationSucceeded /\ Finished) =>
     /\ ElementInvocations = ExpectedFrom(1)
     /\ \A n \in DOMAIN election_tree :
          election_tree[n].parent # 0 =>
             Position(n) < Position(election_tree[n].parent)

\* the failures recorded for rule class c under severity s
Bucket(s, c) ==
  IF KeyIndex(exceptions[s], c) = 0 THEN <<>>
  ELSE exceptions[s][KeyIndex(exceptions[s], c)].failures

\* C6 as stated: every failure of the ElectionException family caught at
\* the dispatch boundary is recorded, before the next invocation, in exactly
\* one severity bucket under the class of the instance that raised it; none
\* is dropped.
C6_AsStated ==
  /\ \A k \in DOMAIN calls :
       calls[k].outcome.result = "raised" =>
          Cardinality({s \in Severities :
             \E h \in DOMAIN Bucket(s, instances[calls[k].rule].cls) :
                Bucket(s, instances[calls[k].rule].cls)[h]
                  = calls[k].outcome.failure}) = 1
  /\ \A c \in RuleClasses :
       Cardinality({k \in DOMAIN calls :
                      /\ calls[k].outcome.result = "raised"
                      /\ instances[calls[k].rule].cls = c})
         = SumOver([s \in Severities |-> Len(Bucket(s, c))], Severities)

\* the keys a dispatch table can have
Keys == DOMAIN registry \cup {"tree", "A", "B", ""}

\* how often instance inst stands in list q
Occurrences(q, inst) == Cardinality({k \in DOMAIN q : q[k] = inst})

\* C8: after register_rules, the list under key k contains the instance of
\* a configured rule class exactly when k is among the keys its elements()
\* declares, and once even when elements() lists k twice; within each key the
\* instances stand in the order of rule_classes_to_check.
C8_DispatchTable ==
  RegistrationSucceeded =>
     /\ \A n \in DOMAIN instances : instances[n].cls = rule_classes_to_check[n]
     /\ \A n \in DOMAIN instances, k \in Keys :
          Occurrences(RegistryGet(registry, k), n)
            = IF k \in ElementSet(RuleCatalog[instances[n].cls].elements)
              THEN 1 ELSE 0
     /\ \A k \in DOMAIN registry :
          /\ registry[k] # <<>>
          /\ \A h \in DOMAIN registry[k] : registry[k][h] \in DOMAIN instances
          /\ \A g, h \in DOMAIN registry[k] :
               g < h => registry[k][g] < registry[k][h]

\* register_rules returned with a rule whose elements() lists a key twice
\* registered behind another rule of the same key
C8_Witness ==
  /\ pc = "tree"
  /\ RegistrationSucceeded
  /\ "A" \in DOMAIN registry
  /\ Len(registry["A"]) = 2
  /\ instances[registry["A"][2]].cls = "ElementRuleAB"
  /\ instances[registry["A"][1]].cls = "ElementRuleA"


(********************************* reports *********************************)
\* the min_severity print_exceptions was called with (None counts as 0)
MinSeverity == IF output.severity = <<>> THEN 0 ELSE output.severity[1]

\* the highest severity at which failures were recorded, as a position in
\* _SEVERITIES (Info 1, Warning 2, Error 3), or 0 when there is none
HighestRecorded ==
  LET present == {k \in DOMAIN _SEVERITIES : exception_counts[_SEVERITIES[k]] > 0}
  IN IF present = {} THEN 0
     ELSE CHOOSE k \in present : \A h \in present : h <= k

\* failures were recorded, all of them below min_severity
AllBelowThreshold ==
  /\ output.called
  /\ total_count > 0
  /\ MinSeverity + 1 > HighestRecorded

\* C7 as stated: print_exceptions called with min_severity above the highest
\* severity at which failures were recorded prints the clean-run message.
C7_AsStated ==
  AllBelowThreshold => output.lines = <<CleanRunLine>>

\* C7 amended: print_exceptions called with a min_severity of at most 3
\* that is above the highest severity at which failures were recorded prints
\* nothing at all; the clean-run message is printed exactly when
\* total_count is 0.
C7_PrintsNothing ==
  /\ (AllBelowThreshold /\ MinSeverity <= Len(_SEVERITIES)) =>
        output.lines = <<>>
  /\ output.called =>
        ((output.lines = <<CleanRunLine>>) <=> (total_count = 0))
  /\ output.called =>
        \A k \in DOMAIN output.lines :
           output.lines[k] = CleanRunLine => total_count = 0

\* print_exceptions was called with min_severity Warning or Error after a
\* run in which checks raised failures, all of a lower severity
C7_Witness ==
  /\ AllBelowThreshold
  /\ MinSeverity \in {1, 2}
  /\ RaisedSoFar > 0
  /\ HighestRecorded > 0
  /\ output.lines = <<>>

(******************************** set_option *******************************)
\* C9: set_option with an option whose name is not an attribute of the
\* instance raises ElectionException and leaves every attribute unchanged;
\* with a name the instance has it sets that attribute to the option value
\* and changes no other attribute.
C9_SetOption ==
  pc = "set_option returned" =>
     IF args.option.option_name \notin DOMAIN args.attrs
     THEN /\ result.raised
          /\ result.attrs = args.attrs
     ELSE /\ ~result.raised
          /\ DOMAIN result.attrs = DOMAIN args.attrs
          /\ result.attrs[args.option.option_name] = args.option.option_value
          /\ \A a \in DOMAIN args.attrs \ {args.option.option_name} :
               result.attrs[a] = args.attrs[a]

\* set_option returned from an option naming an attribute the instance,
\* whose attributes had been set before, does not have
C9_Witness ==
  /\ pc = "set_option returned"
  /\ args.option.option_name = "missing_element"
  /\ "missing_element" \notin DOMAIN args.attrs
  /\ args.attrs["election_tree"] = "value"
  /\ result.raised

(************************** ValidReferenceRule.check ***********************)
\* C10: ValidReferenceRule.check raises an ElectionError exactly when
\* referenced - defined is not empty; the identifiers listed in the message
\* are the members of referenced - defined, each once; when referenced is a
\* subset of defined the check returns and raises nothing.
C10_ValidReference ==
  pc = "check returned" =>
     LET difference == args.reference_ids \ args.defined_ids
     IN /\ (result.result = "raised") <=> (difference # {})
        /\ result.result = "raised" =>
             /\ result.cls = "ElectionError"
             /\ {result.listing[k] : k \in DOMAIN result.listing} = difference
             /\ Len(result.listing) = Cardinality(difference)
        /\ args.reference_ids \subseteq args.defined_ids =>
             /\ result.result = "returned"
             /\ result.listing = <<>>

\* check raised for two undefined references while another reference was
\* defined
C10_Witness ==
  /\ pc = "check returned"
  /\ result.result = "raised"
  /\ Len(result.listing) = 2
  /\ args.reference_ids \cap args.defined_ids # {}


(************************ get_element_class on its own *********************)
\* tag names and attribute values of the elements handed to
\* get_element_class
TagNames == {"A", "B", "tree"}
AttribValues == {"A", "B", "tree", ""}

\* element.attrib: any of the xsi:type attribute and an attribute "id"
Attribs ==
  UNION { [names -> AttribValues] : names \in SUBSET {TYPE_ATTRIB, "id"} }

\* the element is None or an element with a tag and attributes
InitResolve ==
  /\ pc = "get_element_class"
  /\ args \in {NoElementObject} \cup [tag : TagNames, attrib : Attribs]
  /\ result = NoCall
  /\ InitRegistry
  /\ election_file = NoTree
  /\ rule_classes_to_check = <<>>
  /\ rule_options = EmptyDict

\* self.get_element_class(element)
CallGetElementClass ==
  /\ pc = "get_element_class"
  /\ result' = get_element_class(args)
  /\ pc' = "get_element_class returned"
  /\ UNCHANGED <<standalone, date_rule>>

SpecResolve == InitResolve /\ [][CallGetElementClass]_vars

\* C11: get_element_class returns None for an absent element; for an element
\* carrying the xsi:type attribute it returns the value of that attribute,
\* not the tag; for an element without it, it returns the tag.
C11_ResolveType ==
  pc = "get_element_class returned" =>
     IF args = NoElementObject THEN result = None
     ELSE IF TYPE_ATTRIB \in DOMAIN args.attrib
          THEN /\ result = args.attrib[TYPE_ATTRIB]
               /\ args.attrib[TYPE_ATTRIB] # args.tag => result # args.tag
          ELSE result = args.tag

\* get_element_class returned for an element with an id and an xsi:type
\* that differs from its tag
C11_Witness ==
  /\ pc = "get_element_class returned"
  /\ args # NoElementObject
  /\ DOMAIN args.attrib = {TYPE_ATTRIB, "id"}
  /\ args.tag = "B"
  /\ args.attrib[TYPE_ATTRIB] = "A"
  /\ result = "A"


(**************************** configuration failure ************************)
\* an option configured for rule class cls names an attribute its instance
\* does not have
HasBadOption(cls) ==
  /\ cls \in DOMAIN rule_options
  /\ \E k \in DOMAIN rule_options[cls] :
        rule_options[cls][k].option_name \notin RuleCatalog[cls].attrs

\* the instances of rule class cls that stand in the dispatch table
RegisteredOf(cls) ==
  {n \in DOMAIN instances :
     /\ instances[n].cls = cls
     /\ \E k \in DOMAIN registry : Occurrences(registry[k], n) > 0}

\* an instance of cls stands under every key cls declares
FullyRegistered(cls) ==
  \E n \in DOMAIN instances :
     /\ instances[n].cls = cls
     /\ \A k \in ElementSet(RuleCatalog[cls].elements) :
          Occurrences(RegistryGet(registry, k), n) = 1

\* a rule class with a bad option is configured and the files parsed
BadOptionConfigured ==
  /\ election_tree # NoTree
  /\ \E n \in DOMAIN rule_classes_to_check :
        HasBadOption(rule_classes_to_check[n])

\* C12 as stated: a configuration failure aborts the registration of that
\* rule only: the rule is not inserted into the dispatch table, every other
\* configured rule class is still registered and its checks are still run.
C12_AsStated ==
  (Finished /\ BadOptionConfigured) =>
     \A n \in DOMAIN rule_classes_to_check :
        LET cls == rule_classes_to_check[n]
        IN IF HasBadOption(cls) THEN RegisteredOf(cls) = {}
           ELSE /\ FullyRegistered(cls)
                /\ ~RuleCatalog[cls].takes_element =>
                     \E m \in RegisteredOf(cls) : InvokedWith(m, NoElement)

\* C12 amended: the configuration failure leaves register_rules and
\* check_rules: the rule is not inserted into the dispatch table, the rule
\* classes listed before it stay registered, the rule classes listed after
\* it are not instantiated, no check is run and no count is changed.
C12_ConfigurationFailureAborts ==
  BadOptionConfigured =>
     /\ pc \in {"register", "aborted"}
     /\ calls = <<>>
     /\ total_count = 0
     /\ \A n \in DOMAIN instances :
          /\ instances[n].cls = rule_classes_to_check[n]
          /\ ~HasBadOption(instances[n].cls)
          /\ FullyRegistered(instances[n].cls)
     /\ \A k \in DOMAIN registry :
          \A h \in DOMAIN registry[k] : registry[k][h] \in DOMAIN instances
     /\ pc = "aborted" =>
          /\ Len(instances) < Len(rule_classes_to_check)
          /\ HasBadOption(rule_classes_to_check[Len(instances) + 1])

\* check_rules was left by the configuration failure of the second of two
\* rule classes, the first being registered
C12_Witness ==
  /\ pc = "aborted"
  /\ BadOptionConfigured
  /\ Len(rule_classes_to_check) = 2
  /\ Len(instances) = 1
  /\ FullyRegistered(rule_classes_to_check[1])
  /\ HasBadOption(rule_classes_to_check[2])


(********************** exception_handler: what it adds ********************)
\* the count recorded for rule class c under severity s, 0 when c has no
\* entry
RuleCount(s, c) ==
  IF c \in DOMAIN exception_rule_counts[s] THEN exception_rule_counts[s][c]
  ELSE 0

\* max(1, number of entries of the failure's log)
Weight(failure) ==
  IF Len(failure.error_log) > 1 THEN Len(failure.error_log) ELSE 1

\* the sum of Weight over the failures of list q
RECURSIVE WeightOf(_)
WeightOf(q) == IF q = <<>> THEN 0 ELSE Weight(Head(q)) + WeightOf(Tail(q))

\* the step is a check that raised a failure of one of the three severities
ClassifiedStep ==
  /\ Len(calls') = Len(calls) + 1
  /\ calls'[Len(calls')].outcome.result = "raised"
  /\ calls'[Len(calls')].outcome.failure.cls \in Severities

\* what exception_handler does on such a step
HandlerStep ==
  LET call == calls'[Len(calls')]
      failure == call.outcome.failure
      rule_class == instances[call.rule].cls
      n == Weight(failure)
  IN /\ total_count' = total_count + n
     /\ \A s \in Severities, c \in RuleClasses :
          IF s = failure.cls /\ c = rule_class
          THEN /\ Bucket(s, c)' = Append(Bucket(s, c), failure)
               /\ RuleCount(s, c)' = RuleCount(s, c) + n
          ELSE /\ Bucket(s, c)' = Bucket(s, c)
               /\ RuleCount(s, c)' = RuleCount(s, c)
     /\ \A s \in Severities :
          exception_counts'[s] =
            exception_counts[s] + (IF s = failure.cls THEN n ELSE 0)

\* every (severity, rule class) count is the sum of max(1, log length) over
\* the failures of its bucket
CountsMatchBuckets ==
  \A s \in Severities, c \in RuleClasses :
     RuleCount(s, c) = WeightOf(Bucket(s, c))

\* C13: for each failure it classifies, exception_handler appends the
\* failure to the (severity, rule class) bucket and raises total_count,
\* exception_counts[severity] and exception_rule_counts[severity][rule class]
\* by the number of entries of the failure's log, or by 1 when the log is
\* empty; each (severity, rule class) count equals the sum of
\* max(1, log length) over its bucket, and the buckets and counts of other
\* severities and rule classes are unchanged.
C13_ExceptionHandler ==
  /\ [][ClassifiedStep => HandlerStep]_vars
  /\ []CountsMatchBuckets

\* one bucket holds a failure with an empty log and one with a log of two
\* entries, and its count is 3
C13_Witness ==
  \E s \in Severities, c \in RuleClasses :
     /\ Len(Bucket(s, c)) = 2
     /\ \E k \in 1..2 : Bucket(s, c)[k].error_log = <<>>
     /\ \E k \in 1..2 : Len(Bucket(s, c)[k].error_log) = 2
     /\ RuleCount(s, c) = 3
     /\ total_count = 3


(******************* the order of calls on a rule instance *****************)
\* the positions of steps at which op is called on instance inst
StepsOf(op, inst) ==
  {k \in DOMAIN steps : steps[k] = Step(op, inst)}

\* the instances register_rules created so far, the one it was configuring
\* when an option raised included
Created == {steps[k].rule : k \in DOMAIN steps}

\* the options configured for instance inst
ConfiguredOptions(inst) ==
  LET cls == rule_classes_to_check[inst]
  IN IF cls \in DOMAIN rule_options THEN rule_options[cls] ELSE <<>>

\* C14: for every rule instance register_rules creates, all its configured
\* set_option calls come first, then setup exactly once, then the insertion
\* into the dispatch table, then its check calls; setup is never invoked
\* after a check of any rule has started, and no check of an instance runs
\* before that instance's setup.
C14_OrderOfOperations ==
  LET options == {k \in DOMAIN steps : steps[k].op = "set_option"}
      setups == {k \in DOMAIN steps : steps[k].op = "setup"}
      inserts == {k \in DOMAIN steps : steps[k].op = "insert"}
      checks == {k \in DOMAIN steps : steps[k].op = "check"}
      Of(at, inst) == {k \in at : steps[k].rule = inst}
  IN /\ \A inst \in Created :
          LET o == Of(options, inst)
              u == Of(setups, inst)
              r == Of(inserts, inst)
              c == Of(checks, inst)
          IN /\ Cardinality(u) <= 1
             /\ Cardinality(r) <= 1
             /\ inst \in DOMAIN instances =>
                  /\ Cardinality(u) = 1
                  /\ Cardinality(r) = 1
                  /\ Cardinality(o) = Len(ConfiguredOptions(inst))
             /\ \A k \in o, h \in u : k < h
             /\ \A k \in u, h \in r : k < h
             /\ c # {} => /\ \E k \in u : \A h \in c : k < h
                          /\ \E k \in r : \A h \in c : k < h
     /\ \A k \in setups, h \in checks : k < h

\* a finished run of two rules: the first was given an option, set up,
\* inserted and then checked, and the second was set up after the first was
\* inserted and checked as well
C14_Witness ==
  /\ pc = "done"
  /\ Len(instances) = 2
  /\ StepsOf("set_option", 1) # {}
  /\ StepsOf("check", 1) # {}
  /\ StepsOf("check", 2) # {}
  /\ \E u \in StepsOf("setup", 2), r \in StepsOf("insert", 1) : r < u


(*********************** the report of a failing run ***********************)
\* the rule classes whose checks raised a failure of severity s
FailedClasses(s) ==
  {instances[calls[k].rule].cls :
     k \in {h \in DOMAIN calls : /\ calls[h].outcome.result = "raised"
                                 /\ calls[h].outcome.failure.cls = s}}

\* the invocation at which rule class c first failed at severity s
FirstFailure(s, c) ==
  LET at == {k \in DOMAIN calls : /\ calls[k].outcome.result = "raised"
                                  /\ calls[k].outcome.failure.cls = s
                                  /\ instances[calls[k].rule].cls = c}
  IN CHOOSE k \in at : \A h \in at : k <= h

\* the failed classes of severity s by descending count, classes of equal
\* count in the order in which they first failed
Ranked(s) ==
  CHOOSE q \in Orderings(FailedClasses(s)) :
    \A g, h \in DOMAIN q :
       g < h =>
          \/ RuleCount(s, q[g]) > RuleCount(s, q[h])
          \/ /\ RuleCount(s, q[g]) = RuleCount(s, q[h])
             /\ FirstFailure(s, q[g]) < FirstFailure(s, q[h])

\* the total line of severity s followed by its rule class lines
ReportOf(s) ==
  <<[kind |-> "severity", e_type |-> s, rule_class |-> "",
     count |-> exception_counts[s]]>>
  \o [k \in DOMAIN Ranked(s) |->
        [kind |-> "rule", e_type |-> s, rule_class |-> Ranked(s)[k],
         count |-> RuleCount(s, Ranked(s)[k])]]

RECURSIVE ReportDownFrom(_, _)
\* the reports of the severities from position k of _SEVERITIES down to
\* those above position least, severities without failures left out
ReportDownFrom(k, least) ==
  IF k <= least THEN <<>>
  ELSE (IF exception_counts[_SEVERITIES[k]] > 0 THEN ReportOf(_SEVERITIES[k])
        ELSE <<>>)
       \o ReportDownFrom(k - 1, least)

\* the total and rule class lines print_exceptions printed
PrintedTotals ==
  LET totals == SelectSeq(output.lines,
                          LAMBDA l : l.kind \in {"severity", "rule"})
  IN [k \in DOMAIN totals |->
        [kind |-> totals[k].kind, e_type |-> totals[k].e_type,
         rule_class |-> totals[k].rule_class, count |-> totals[k].count]]

\* C15 as stated: when total_count is non-zero, print_exceptions prints a
\* total line for exactly the severities at or above min_severity that have
\* a non-zero count, most severe first, and under each one line per rule
\* class with failures at that severity, by descending count, classes of
\* equal count in the order in which they first failed.
C15_AsStated ==
  (output.called /\ total_count > 0) =>
     PrintedTotals = ReportDownFrom(Len(_SEVERITIES), MinSeverity)

\* the position in _SEVERITIES below which print_exceptions prints nothing:
\* a min_severity above 3 counts as 2
Threshold == IF MinSeverity > Len(_SEVERITIES) THEN Len(_SEVERITIES) - 1
             ELSE MinSeverity

\* C15 amended: when total_count is non-zero, print_exceptions prints a
\* total line for exactly the severities that have a non-zero count and are
\* at or above min_severity, where a min_severity above 3 is taken as 2
\* (Error only) and an absent one as 0, most severe first; under each it
\* prints one line per rule class with failures at that severity, by
\* descending count, classes of equal count in the order in which they first
\* failed.
C15_Report ==
  (output.called /\ total_count > 0) =>
     PrintedTotals = ReportDownFrom(Len(_SEVERITIES), Threshold)

\* print_exceptions was called with min_severity Warning after a run in
\* which two rule classes failed at the same severity with equal counts
C15_Witness ==
  /\ output.called
  /\ MinSeverity = 1
  /\ \E s \in {"ElectionWarning", "ElectionError"} :
       /\ Cardinality(FailedClasses(s)) = 2
       /\ \A c \in FailedClasses(s) : RuleCount(s, c) = 2
  /\ Len(PrintedTotals) = 3


(***************************** DateRule: dates *****************************)
\* the date the child named field of element holds, NoDate when the element
\* has no such child
DateOf(element, field) ==
  IF element[field] = NoElementObject THEN NoDate
  ELSE strptime(element[field].text).date

\* C16 as stated: after every gather_dates(element) that returns normally,
\* whatever was called on the instance before, start_date is the parsed
\* StartDate of this element and absent when the element has no StartDate
\* child, and likewise end_date for EndDate; after reset_instance_vars the
\* five per-invocation fields have their initial values.
C16_AsStated ==
  /\ (result.op = "gather_dates" /\ result.outcome = Returned) =>
        /\ date_rule.start_date = DateOf(result.element, "StartDate")
        /\ date_rule.end_date = DateOf(result.element, "EndDate")
  /\ result.op = "reset_instance_vars" =>
        /\ date_rule.start_elem = NoElementObject
        /\ date_rule.start_date = NoDate
        /\ date_rule.end_elem = NoElementObject
        /\ date_rule.end_date = NoDate
        /\ date_rule.error_log = <<>>

\* the children of element that are present and do not parse as yyyy-mm-dd,
\* StartDate first
Malformed(element) ==
  SelectSeq(<<"StartDate", "EndDate">>,
            LAMBDA f : /\ element[f] # NoElementObject
                       /\ strptime(element[f].text).raised # "")

\* what C17 says of a call of gather_dates
GatherStep ==
  result'.op = "gather_dates" =>
     LET bad == Malformed(result'.element)
         outcome == result'.outcome
     IN /\ date_rule'.error_log = date_rule.error_log
        /\ IF bad = <<>> THEN outcome = Returned
           ELSE /\ outcome.result = "raised"
                /\ outcome.failure.cls = "ElectionError"
                /\ Len(outcome.failure.error_log) = Len(bad)
                /\ \A k \in DOMAIN bad :
                     outcome.failure.error_log[k].line
                       = result'.element[bad[k]].sourceline

\* what C17 says of a call of check_end_after_start
EndAfterStartStep ==
  result'.op = "check_end_after_start" =>
     /\ result'.outcome.result # "raised"
     /\ (date_rule.start_date # NoDate /\ date_rule.end_date # NoDate) =>
           Len(date_rule'.error_log) =
             Len(date_rule.error_log)
               + (IF date_rule.end_date < date_rule.start_date THEN 1 ELSE 0)

\* what C17 says of a call of check_for_date_not_in_past
NotInPastStep ==
  result'.op = "check_for_date_not_in_past" =>
     /\ result'.outcome.result # "raised"
     /\ result'.date # NoDate =>
           Len(date_rule'.error_log) =
             Len(date_rule.error_log)
               + (IF result'.date < today THEN 1 ELSE 0)

\* C17 as stated: gather_dates examines both fields before failing; it
\* raises one ElectionError whose log has one malformed-date entry per
\* present field that does not parse as yyyy-mm-dd, raises nothing when
\* every present field parses, and leaves the instance's error_log alone;
\* check_end_after_start appends exactly one entry when the end date is
\* earlier than the start date and none otherwise, check_for_date_not_in_past
\* exactly one when the date is earlier than today and none otherwise, and
\* neither raises a validation failure.
C17_AsStated ==
  [][GatherStep /\ EndAfterStartStep /\ NotInPastStep]_vars


(********************* the dispatch table over the calls *******************)
\* how many instances of rule class cls stand under key
InstancesOf(cls, key) ==
  Cardinality({k \in DOMAIN RegistryGet(registry, key) :
                 instances[registry[key][k]].cls = cls})

\* rule class cls is configured
Configured(cls) ==
  \E n \in DOMAIN rule_classes_to_check : rule_classes_to_check[n] = cls

\* how often rule class cls was invoked with element n in run r
InvokedInRun(cls, n, r) ==
  Cardinality({k \in DOMAIN calls : /\ calls[k].run = r
                                    /\ calls[k].element = n
                                    /\ instances[calls[k].rule].cls = cls})

\* C18 as stated: the dispatch table is built once: after any number of
\* check_rules calls on one registry, each key of the dispatch table holds
\* exactly one instance per configured rule class that declares that key,
\* and no rule class is invoked more than once per matching element in a
\* run.
C18_AsStated ==
  /\ (pc \in {"tree", "elements", "done"} /\ election_tree # NoTree) =>
        \A key \in DOMAIN registry, cls \in RuleClasses :
           InstancesOf(cls, key) =
             IF Configured(cls) /\ key \in ElementSet(RuleCatalog[cls].elements)
             THEN 1 ELSE 0
  /\ \A cls \in RuleClasses, n \in DOMAIN election_file, r \in 1..runs :
        InvokedInRun(cls, n, r) <= 1


(************************* who changes the aggregate ***********************)
\* no count and no bucket is changed by the step
AggregateKept == aggregate' = aggregate

\* no count goes down and no bucket loses a failure in the step
AggregateGrows ==
  /\ total_count' >= total_count
  /\ \A s \in Severities :
       /\ exception_counts'[s] >= exception_counts[s]
       /\ \A c \in RuleClasses :
            /\ RuleCount(s, c)' >= RuleCount(s, c)
            /\ Len(Bucket(s, c)') >= Len(Bucket(s, c))
            /\ SubSeq(Bucket(s, c)', 1, Len(Bucket(s, c))) = Bucket(s, c)

\* the step is a check that returned without raising
SuccessfulCheck ==
  /\ Len(calls') = Len(calls) + 1
  /\ calls'[Len(calls')].outcome = Returned

\* C19: the aggregate (total_count, exception_counts, exception_rule_counts
\* and the failure buckets) is changed only inside check_rules:
\* register_rules, print_exceptions and count_stats leave it unchanged, a
\* check that succeeds leaves it unchanged, and during a run no count ever
\* goes down.
C19_AggregateFrame ==
  [][/\ pc = "register" => AggregateKept
     /\ output' # output => AggregateKept
     /\ result' # result => AggregateKept
     /\ SuccessfulCheck => AggregateKept
     /\ pc = "done" => AggregateKept
     /\ AggregateGrows]_vars

\* after a run that counted failures, print_exceptions and count_stats were
\* called and the counts are still there
C19_Witness ==
  /\ pc = "done"
  /\ output.called
  /\ result = "count_stats printed the counts"
  /\ RaisedSoFar > 0
  /\ total_count >= 2
  /\ \E k \in DOMAIN calls : calls[k].outcome = Returned

=============================================================================
